---- MODULE Spec2Model ----
(***************************************************************************)
(* Two utilities of auspice:                                               *)
(*   - the v1 -> v2 JSON converter (convertFromV1 and its helpers),        *)
(*   - the map helpers that build and patch demes and transmissions        *)
(*     (components/map/mapHelpersLatLong.js).                              *)
(* Each has its own specification: SpecConvert and SpecMap.                *)
(***************************************************************************)
EXTENDS Integers, Sequences, FiniteSets, TLC

VARIABLES
  \* ---- converter ----
  tree,      \* the legacy tree, mutated in place: node reference -> node object
  meta,      \* the legacy meta object (the converter mutates it too)
  treeName,  \* the treeName argument ("" when not given)
  v2,        \* the document under construction
  pc,        \* position inside convertFromV1
  legacy,    \* a deep copy of the input {tree, meta}, kept to state the properties
  \* ---- map ----
  nodes,                 \* the node array of the tree shown on the map
  visibility,            \* the visibility array of the last build or patch
  nodeColors,            \* the color array of the last build or patch
  triplicate,            \* the triplicate flag of the last build
  map,                   \* the Leaflet map: its zoom factor
  demeData,              \* the arrays and index maps the caller holds
  demeIndices,
  arcData,
  transmissionData,
  transmissionIndices,
  demesMissingLatLongs,
  lastCall,              \* the last call made and how it ended
  closest                \* one call of maybeGetClosestTransmissionEvent:
                         \* its longitudes and origin offset, its candidates
                         \* and what it returned

convVars == <<tree, meta, treeName, v2, pc, legacy>>

mapVars == <<nodes, visibility, nodeColors, triplicate, map, demeData,
             demeIndices, arcData, transmissionData, transmissionIndices,
             demesMissingLatLongs, lastCall, closest>>

vars == <<tree, meta, treeName, v2, pc, legacy,
          nodes, visibility, nodeColors, triplicate, map, demeData,
          demeIndices, arcData, transmissionData, transmissionIndices,
          demesMissingLatLongs, lastCall, closest>>

(***************************************************************************)
(* JavaScript objects are functions from property names to values; a       *)
(* property that is absent is outside the domain.                          *)
(***************************************************************************)
EmptyObject == [k \in {} |-> k]

Has(o, k) == k \in DOMAIN o

Delete(o, k) == [y \in (DOMAIN o) \ {k} |-> o[y]]

Set(o, k, v) == [y \in (DOMAIN o) \cup {k} |-> IF y = k THEN v ELSE o[y]]

\* the value of a property that was assigned `undefined`
Undefined == "undefined"

EndsWith(s, suffix) ==
  /\ Len(s) >= Len(suffix)
  /\ SubSeq(s, Len(s) - Len(suffix) + 1, Len(s)) = suffix

(***************************************************************************)
(* Truthiness of o[k].  JavaScript decides it by the type of the value;    *)
(* in the v1 schema every property has one type, so the model decides it   *)
(* by the property name: numbers are falsy when 0, strings when "",        *)
(* booleans when false; objects and arrays are always truthy.              *)
(***************************************************************************)
NumberProps == {"num_date", "div", "clock_length", "country_entropy",
                "region_entropy", "num_date_entropy", "yvalue"}

StringProps == {"authors", "accession", "url", "clade_name", "clade_annotation",
                "country", "region", "date", "raw_date", "strain",
                "menuItem", "legendTitle", "type", "title", "journal",
                "paper_url", "updated", "geoResolution", "colorBy",
                "distanceMeasure"}

BooleanProps == {"serum", "mapTriplicate"}

Truthy(o, k) ==
  /\ Has(o, k)
  /\ IF k \in NumberProps THEN o[k] # 0
     ELSE IF k \in StringProps THEN o[k] # "" /\ o[k] # Undefined
     ELSE IF k \in BooleanProps THEN o[k]
     ELSE TRUE

(***************************************************************************)
(* prettyString with its default options, on the author keys of the model: *)
(* underscores become spaces and every word is capitalised.                *)
(***************************************************************************)
prettyString(x) ==
  CASE x = "" -> ""
    [] x = "smith_et_al" -> "Smith Et Al"
    [] x = "nobody" -> "Nobody"
    [] x = "usa" -> "USA"
    [] OTHER -> x

(***************************************************************************)
(* setColorings.  color_options is kept as the sequence of its entries,    *)
(* in Object.entries order.                                                *)
(***************************************************************************)
coloringOf(value) ==
  LET title == IF Truthy(value, "menuItem") THEN value.menuItem
               ELSE IF Has(value, "legendTitle") THEN value.legendTitle
               ELSE Undefined
      type == IF Has(value, "type") /\ value.type = "continuous"
              THEN "continuous" ELSE "categorical"
      base == [title |-> title, type |-> type]
  IN IF Truthy(value, "color_map") THEN Set(base, "scale", value.color_map)
     ELSE base

\* a variant of renameAuthors without `delete v2.colorings[key]`
renameAuthorsKeepingKey(colorings, key) ==
  IF key = "authors"
  THEN Set(colorings, "author", colorings[key])
  ELSE colorings

\* if (key === "authors") { ... }
renameAuthors(colorings, key) ==
  IF key = "authors"
  THEN Delete(Set(colorings, "author", colorings[key]), key)
  ELSE colorings

RECURSIVE setColoringsLoop(_, _)
setColoringsLoop(colorings, entries) ==
  IF entries = <<>> THEN colorings
  ELSE LET key == entries[1].key
           withKey == Set(colorings, key, coloringOf(entries[1].value))
       IN setColoringsLoop(renameAuthors(withKey, key), Tail(entries))

\* Object.entries(undefined) throws a TypeError
setColorings(doc, m) ==
  IF ~Has(m, "color_options")
  THEN [threw |-> TRUE, v2 |-> Set(doc, "colorings", EmptyObject)]
  ELSE [threw |-> FALSE,
        v2 |-> Set(doc, "colorings", setColoringsLoop(EmptyObject, m.color_options))]

(***************************************************************************)
(* setMiscMetaProperties.  v2.filters is the very array of meta.filters,   *)
(* so the splice shows in both; meta.defaults is deleted.                  *)
(***************************************************************************)
RECURSIVE spliceAuthors(_)
spliceAuthors(filters) ==
  IF filters = <<>> THEN <<>>
  ELSE IF filters[1] = "authors" THEN <<"author">> \o Tail(filters)
  ELSE <<filters[1]>> \o spliceAuthors(Tail(filters))

displayDefaults(defaults) ==
  LET d1 == IF Truthy(defaults, "geoResolution")
            THEN Set(EmptyObject, "geo_resolution", defaults.geoResolution)
            ELSE EmptyObject
      d2 == IF Truthy(defaults, "colorBy")
            THEN Set(d1, "color_by", defaults.colorBy) ELSE d1
      d3 == IF Truthy(defaults, "distanceMeasure")
            THEN Set(d2, "distance_measure", defaults.distanceMeasure) ELSE d2
  IN IF Truthy(defaults, "mapTriplicate")
     THEN Set(d3, "map_triplicate", defaults.mapTriplicate) ELSE d3

setMiscMetaProperties(doc, m) ==
  LET a1 == Set(doc, "title", IF Has(m, "title") THEN m.title ELSE Undefined)
      a2 == Set(a1, "version", "2.0-alpha.0")
      a3 == Set(a2, "updated", IF Has(m, "updated") THEN m.updated ELSE Undefined)
      a4 == IF Has(m, "maintainer")
            THEN Set(a3, "maintainers",
                     <<[name |-> m.maintainer[1], url |-> m.maintainer[2]]>>)
            ELSE a3
      a5 == IF Has(m, "annotations")
            THEN Set(a4, "genome_annotations", m.annotations) ELSE a4
      a6 == IF Has(m, "filters")
            THEN Set(a5, "filters", spliceAuthors(m.filters)) ELSE a5
      a7 == IF Has(m, "panels") THEN Set(a6, "panels", m.panels) ELSE a6
      a8 == IF Has(m, "defaults")
            THEN Set(a7, "display_defaults", displayDefaults(m.defaults)) ELSE a7
      a9 == IF Has(m, "geo") THEN Set(a8, "geographic_info", m.geo) ELSE a8
      m1 == IF Has(m, "filters") THEN Set(m, "filters", spliceAuthors(m.filters))
            ELSE m
      m2 == Delete(m1, "defaults")
  IN [v2 |-> a9, meta |-> m2]

(***************************************************************************)
(* The per-node callbacks of the traversals.                               *)
(***************************************************************************)
\* the callback of setAuthorInfo
authorInfoCallback(node, m) ==
  IF Has(node, "attr") /\ Truthy(node.attr, "authors")
  THEN LET v1author == node.attr.authors
           attr1 == Delete(node.attr, "authors")
       IN IF ~Has(m.author_info, v1author)
          THEN Set(node, "attr", attr1)
          ELSE LET v1info == m.author_info[v1author]
                   a1 == IF Truthy(v1info, "title")
                         THEN Set(EmptyObject, "title", v1info.title)
                         ELSE EmptyObject
                   a2 == IF Truthy(v1info, "journal")
                         THEN Set(a1, "journal", v1info.journal) ELSE a1
                   a3 == IF Truthy(v1info, "paper_url")
                         THEN Set(a2, "paper_url", v1info.paper_url) ELSE a2
                   a4 == Set(a3, "author", prettyString(v1author))
                   a5 == Set(a4, "value", v1author)
               IN Set(node, "attr", Set(attr1, "author", a5))
  ELSE node

\* the first callback of setVaccineChoicesOnNodes
vaccineChoiceCallback(node, m) ==
  IF Has(node, "strain") /\ Has(m.vaccine_choices, node.strain)
  THEN Set(node, "vaccine", [selection_date |-> m.vaccine_choices[node.strain]])
  ELSE node

\* the second callback of setVaccineChoicesOnNodes
serumCallback(node) ==
  IF Truthy(node, "serum")
  THEN LET vaccine == IF Has(node, "vaccine") THEN node.vaccine ELSE EmptyObject
       IN Set(node, "vaccine", Set(vaccine, "serum", TRUE))
  ELSE node

(***************************************************************************)
(* storeTreeAsV2: the reshaping of one node, step by step.                 *)
(***************************************************************************)
allowedProperties ==
  {"strain", "div", "num_date", "vaccine", "labels", "hidden", "mutations",
   "url", "accession", "traits", "children", "author"}

attrsToIgnore == {"clock_length", "date", "raw_date", "strain"}

\* node.attr[k] moves to node[k] when it is truthy
moveToNode(node, k) ==
  IF Truthy(node.attr, k)
  THEN Set(Set(node, k, node.attr[k]), "attr", Delete(node.attr, k))
  ELSE node

cladeLabel(node) ==
  IF Truthy(node.attr, "clade_name") \/ Truthy(node.attr, "clade_annotation")
  THEN LET labels == IF Has(node, "labels") THEN node.labels ELSE EmptyObject
           clade == IF Truthy(node.attr, "clade_annotation")
                    THEN node.attr.clade_annotation ELSE node.attr.clade_name
           attr1 == Delete(Delete(node.attr, "clade_name"), "clade_annotation")
       IN Set(Set(node, "labels", Set(labels, "clade", clade)), "attr", attr1)
  ELSE node

\* Array.prototype.join
RECURSIVE join(_, _)
join(items, sep) ==
  IF items = <<>> THEN ""
  ELSE IF Len(items) = 1 THEN items[1]
  ELSE items[1] \o sep \o join(Tail(items), sep)

(***************************************************************************)
(* An entry of aa_muts is a list of mutations in a well-formed document:   *)
(* [kind |-> "list", items |-> ...].  The malformed entries of the model   *)
(* are null, a string and a number.  for-in visits the sites in the order  *)
(* of SiteOrder, the order in which the inputs of the model list them.     *)
(***************************************************************************)
SiteOrder == <<"HA1", "HA2">>

forIn(o) == SelectSeq(SiteOrder, LAMBDA site : Has(o, site))

\* does `aa_muts[aa].length`, then `.join`, throw a TypeError?
aaEntryThrows(entry) ==
  \/ entry.kind = "null"
  \/ entry.kind = "string" /\ Len(entry.text) > 0

\* is `aa_muts[aa].length` truthy?
aaEntryHasLength(entry) ==
  \/ entry.kind = "list" /\ Len(entry.items) > 0
  \/ entry.kind = "string" /\ Len(entry.text) > 0

RECURSIVE aaMutsStrings(_, _)
aaMutsStrings(aa_muts, sites) ==
  IF sites = <<>> THEN <<>>
  ELSE LET aa == sites[1]
       IN (IF aaEntryHasLength(aa_muts[aa])
           THEN <<aa \o ": " \o join(aa_muts[aa].items, ", ")>>
           ELSE <<>>)
          \o aaMutsStrings(aa_muts, Tail(sites))

aaLabelThrows(node) ==
  /\ Has(node, "aa_muts")
  /\ \E i \in 1..Len(forIn(node.aa_muts)) :
        aaEntryThrows(node.aa_muts[forIn(node.aa_muts)[i]])

aaLabel(node) ==
  IF Has(node, "aa_muts")
  THEN LET muts == aaMutsStrings(node.aa_muts, forIn(node.aa_muts))
           labels == IF Has(node, "labels") THEN node.labels ELSE EmptyObject
       IN IF Len(muts) > 0
          THEN Set(node, "labels", Set(labels, "aa", join(muts, "; ")))
          ELSE node
  ELSE node

moveNumDate(node) ==
  IF Truthy(node.attr, "num_date")
  THEN LET attr1 == Delete(node.attr, "num_date")
           value == [value |-> node.attr.num_date]
       IN IF Truthy(attr1, "num_date_confidence")
          THEN Set(Set(node, "num_date",
                       Set(value, "confidence", attr1.num_date_confidence)),
                   "attr", Delete(attr1, "num_date_confidence"))
          ELSE Set(Set(node, "num_date", value), "attr", attr1)
  ELSE node

\* a variant of moveDiv that tests truthiness: `if (node.attr.div)`
moveDivIfTruthy(node) ==
  IF Truthy(node.attr, "div")
  THEN Set(Set(node, "div", node.attr.div), "attr", Delete(node.attr, "div"))
  ELSE node

\* div (NOTE div can be 0): `if (node.attr.div !== undefined)`
moveDiv(node) ==
  IF Has(node.attr, "div")
  THEN Set(Set(node, "div", node.attr.div), "attr", Delete(node.attr, "div"))
  ELSE node

traitKeys(attr) ==
  {a \in DOMAIN attr :
     /\ ~EndsWith(a, "_entropy")
     /\ ~EndsWith(a, "_confidence")
     /\ a \notin attrsToIgnore}

traitData(attr, trait) ==
  LET d1 == [value |-> attr[trait]]
      d2 == IF Truthy(attr, trait \o "_confidence")
            THEN Set(d1, "confidence", attr[trait \o "_confidence"]) ELSE d1
  IN IF Truthy(attr, trait \o "_entropy")
     THEN Set(d2, "entropy", attr[trait \o "_entropy"]) ELSE d2

transferTraits(node) ==
  IF traitKeys(node.attr) # {}
  THEN Set(node, "traits",
           [trait \in traitKeys(node.attr) |-> traitData(node.attr, trait)])
  ELSE node

\* NUC + AA MUTATIONS
mergeMutations(node) ==
  IF Has(node, "muts") \/ Has(node, "aa_muts")
  THEN LET m1 == IF Has(node, "aa_muts") THEN node.aa_muts ELSE EmptyObject
           m2 == IF Has(node, "muts") THEN Set(m1, "nuc", node.muts) ELSE m1
       IN Delete(Delete(Set(node, "mutations", m2), "muts"), "aa_muts")
  ELSE node

\* a variant of removeNonV2Props that leaves `attr` on the node
removeNonV2PropsKeepingAttr(node) ==
  [prop \in (DOMAIN node) \cap (allowedProperties \cup {"attr"}) |-> node[prop]]

\* REMOVE NON-V2 PROPS FROM EACH NODE
removeNonV2Props(node) ==
  [prop \in (DOMAIN node) \cap allowedProperties |-> node[prop]]

\* the callback of storeTreeAsV2; a TypeError leaves the node half reshaped
storeCallback(node) ==
  IF Has(node, "attr")
  THEN LET n1 == moveToNode(node, "author")
           n2 == moveToNode(n1, "accession")
           n3 == moveToNode(n2, "url")
           n4 == cladeLabel(n3)
       IN IF aaLabelThrows(n4)
          THEN [node |-> n4, threw |-> TRUE]
          ELSE [node |-> removeNonV2Props(mergeMutations(transferTraits(
                           moveDiv(moveNumDate(aaLabel(n4)))))),
                threw |-> FALSE]
  ELSE [node |-> removeNonV2Props(mergeMutations(node)), threw |-> FALSE]

(***************************************************************************)
(* traverseTree: cb(node), then the children the node has after cb, in     *)
(* array order.  The callback is named by the function that passes it.     *)
(***************************************************************************)
callback(cb, node, m) ==
  CASE cb = "setAuthorInfo" ->
         [node |-> authorInfoCallback(node, m), threw |-> FALSE]
    [] cb = "vaccineChoice" ->
         [node |-> vaccineChoiceCallback(node, m), threw |-> FALSE]
    [] cb = "serum" -> [node |-> serumCallback(node), threw |-> FALSE]
    [] cb = "storeTreeAsV2" -> storeCallback(node)

RECURSIVE traverseTree(_, _, _, _)
RECURSIVE forEachChild(_, _, _, _, _)
traverseTree(heap, ref, cb, m) ==
  LET r == callback(cb, heap[ref], m)
      heap1 == [heap EXCEPT ![ref] = r.node]
  IN IF r.threw THEN [tree |-> heap1, threw |-> TRUE]
     ELSE IF Has(r.node, "children")
     THEN forEachChild(heap1, r.node.children, 1, cb, m)
     ELSE [tree |-> heap1, threw |-> FALSE]

forEachChild(heap, children, i, cb, m) ==
  IF i > Len(children) THEN [tree |-> heap, threw |-> FALSE]
  ELSE LET r == traverseTree(heap, children[i], cb, m)
       IN IF r.threw THEN r ELSE forEachChild(r.tree, children, i + 1, cb, m)

\* the root of the tree: the object convertFromV1 is given as `tree`
Root == 1

setAuthorInfo(heap, m) ==
  IF ~Has(m, "author_info") THEN heap
  ELSE traverseTree(heap, Root, "setAuthorInfo", m).tree

setVaccineChoicesOnNodes(heap, m) ==
  LET h1 == IF Has(m, "vaccine_choices")
            THEN traverseTree(heap, Root, "vaccineChoice", m).tree
            ELSE heap
  IN traverseTree(h1, Root, "serum", m).tree

storeTreeAsV2(heap) == traverseTree(heap, Root, "storeTreeAsV2", EmptyObject)

(***************************************************************************)
(* The legacy documents of the model.                                      *)
(***************************************************************************)
aaList(items) == [kind |-> "list", items |-> items]

aaNull == [kind |-> "null"]

aaString(text) == [kind |-> "string", text |-> text]

\* legacy nodes, before `strain` and `children` are added
NodeChoices ==
  { \* no attr bag, a legacy-only property
    [yvalue |-> 3],
    \* a full tip: div is 0
    [attr |-> [div |-> 0, num_date |-> 2015, num_date_confidence |-> <<2014, 2016>>,
               authors |-> "smith_et_al", country |-> "usa",
               country_confidence |-> [usa |-> 1], country_entropy |-> 0,
               accession |-> "KX1", url |-> "", clade_name |-> "3c",
               strain |-> "s", date |-> "2015-01-01"],
     muts |-> <<"A1G">>,
     aa_muts |-> [HA1 |-> aaList(<<"K1R", "T2A">>), HA2 |-> aaList(<<>>)],
     serum |-> TRUE, yvalue |-> 1],
    \* num_date is 0, the author key is unknown to author_info
    [attr |-> [div |-> 1, num_date |-> 0, num_date_confidence |-> <<0, 1>>,
               authors |-> "nobody", clade_name |-> "3c",
               clade_annotation |-> "3c2", region |-> "asia",
               region_entropy |-> 2, clock_length |-> 1],
     muts |-> <<>>, serum |-> FALSE],
    \* no div, no muts
    [attr |-> [num_date |-> 2016, country |-> "uk", url |-> "http://x"],
     aa_muts |-> [HA2 |-> aaList(<<"G5E">>)]],
    \* an attr bag, and an aa_muts entry that is null
    [attr |-> [div |-> 2], aa_muts |-> [HA1 |-> aaNull]],
    \* no attr bag, and an aa_muts entry that is a string
    [aa_muts |-> [HA1 |-> aaString("K1R")], muts |-> <<"C2T">>, serum |-> TRUE] }

\* the children of each node: a chain and a root with two tips
Shapes == { <<<<2>>, <<3>>, <<>>>>, <<<<2, 3>>, <<>>, <<>>>> }

Strains == <<"s1", "s2", "s3">>

legacyNode(choice, strain, children) ==
  LET n1 == Set(choice, "strain", strain)
  IN IF children = <<>> THEN n1 ELSE Set(n1, "children", children)

colorOption(key) ==
  CASE key = "authors" ->
         [key |-> key, value |-> [menuItem |-> "authors", legendTitle |-> "Authors",
                                  type |-> "discrete"]]
    [] key = "author" ->
         [key |-> key, value |-> [legendTitle |-> "Author", type |-> "continuous"]]
    [] key = "num_date" ->
         [key |-> key, value |-> [menuItem |-> "date", legendTitle |-> "Sampling date",
                                  type |-> "continuous"]]
    [] key = "country" ->
         [key |-> key, value |-> [legendTitle |-> "Country", type |-> "discrete",
                                  color_map |-> <<<<"usa", "#ff0000">>>>]]

\* color_options: the entries of some keys, in either order
ColorOptionChoices ==
  { <<>>,
    <<colorOption("authors")>>,
    <<colorOption("author")>>,
    <<colorOption("country"), colorOption("num_date")>>,
    <<colorOption("num_date"), colorOption("authors"), colorOption("country")>>,
    <<colorOption("author"), colorOption("authors")>>,
    <<colorOption("authors"), colorOption("author")>>,
    <<colorOption("authors"), colorOption("num_date"), colorOption("author")>> }

authorInfo ==
  [smith_et_al |-> [title |-> "A paper", journal |-> "", paper_url |-> "http://p"]]

\* the optional parts of meta come together
metaExtras ==
  [maintainer |-> <<"someone", "http://m">>,
   annotations |-> [HA1 |-> [start |-> 1]],
   filters |-> <<"country", "authors">>,
   panels |-> <<"tree", "map">>,
   defaults |-> [geoResolution |-> "country", colorBy |-> "", mapTriplicate |-> TRUE],
   geo |-> [country |-> [usa |-> [latitude |-> 40, longitude |-> -100]]],
   vaccine_choices |-> [s2 |-> "2010-01-01"]]

merge(a, b) ==
  [k \in (DOMAIN a) \cup (DOMAIN b) |-> IF k \in DOMAIN b THEN b[k] ELSE a[k]]

MetaChoices ==
  { merge(merge(merge(merge([title |-> "flu"], co), up), ai), ex) :
      co \in {EmptyObject} \cup { [color_options |-> c] : c \in ColorOptionChoices },
      up \in {EmptyObject, [updated |-> "2018-01-01"]},
      ai \in {EmptyObject, [author_info |-> authorInfo]},
      ex \in {EmptyObject, metaExtras} }

TreeChoices ==
  { [ref \in 1..3 |-> legacyNode(c[ref], Strains[ref], shape[ref])] :
      c \in [1..3 -> NodeChoices], shape \in Shapes }

(***************************************************************************)
(* convertFromV1, one action per statement.  The map plays no part in it.  *)
(***************************************************************************)
MapIdle ==
  /\ nodes = <<>>
  /\ visibility = <<>>
  /\ nodeColors = <<>>
  /\ triplicate = FALSE
  /\ map = 1
  /\ demeData = <<>>
  /\ demeIndices = EmptyObject
  /\ arcData = <<>>
  /\ transmissionData = <<>>
  /\ transmissionIndices = EmptyObject
  /\ demesMissingLatLongs = {}
  /\ lastCall = "none"
  /\ closest = [longOrig |-> 0, longDest |-> 0, offsetOrig |-> 0,
                possibleEvents |-> <<>>, closestEvent |-> <<>>, called |-> FALSE]

InitConvert ==
  /\ tree \in TreeChoices
  /\ meta \in MetaChoices
  /\ treeName \in {"", "flu"}
  /\ v2 = EmptyObject
  /\ pc = "setColorings"
  /\ legacy = [tree |-> tree, meta |-> meta]
  /\ MapIdle

SetColorings ==
  /\ pc = "setColorings"
  /\ LET r == setColorings(v2, meta)
     IN /\ v2' = r.v2
        /\ pc' = IF r.threw THEN "threw" ELSE "setMiscMetaProperties"
  /\ UNCHANGED <<tree, meta, treeName, legacy>>
  /\ UNCHANGED mapVars

SetMiscMetaProperties ==
  /\ pc = "setMiscMetaProperties"
  /\ LET r == setMiscMetaProperties(v2, meta)
     IN /\ v2' = r.v2
        /\ meta' = r.meta
  /\ pc' = "setAuthorInfo"
  /\ UNCHANGED <<tree, treeName, legacy>>
  /\ UNCHANGED mapVars

SetAuthorInfo ==
  /\ pc = "setAuthorInfo"
  /\ tree' = setAuthorInfo(tree, meta)
  /\ pc' = "setVaccineChoicesOnNodes"
  /\ UNCHANGED <<meta, treeName, v2, legacy>>
  /\ UNCHANGED mapVars

SetVaccineChoicesOnNodes ==
  /\ pc = "setVaccineChoicesOnNodes"
  /\ tree' = setVaccineChoicesOnNodes(tree, meta)
  /\ pc' = "storeTreeAsV2"
  /\ UNCHANGED <<meta, treeName, v2, legacy>>
  /\ UNCHANGED mapVars

StoreTreeAsV2 ==
  /\ pc = "storeTreeAsV2"
  /\ LET r == storeTreeAsV2(tree)
     IN /\ tree' = r.tree
        /\ v2' = IF r.threw THEN v2 ELSE Set(v2, "tree", Root)
        /\ pc' = IF r.threw THEN "threw" ELSE "treeName"
  /\ UNCHANGED <<meta, treeName, legacy>>
  /\ UNCHANGED mapVars

Return ==
  /\ pc = "treeName"
  /\ v2' = IF treeName # "" THEN Set(v2, "tree_name", treeName) ELSE v2
  /\ pc' = "returned"
  /\ UNCHANGED <<tree, meta, treeName, legacy>>
  /\ UNCHANGED mapVars

NextConvert ==
  \/ SetColorings
  \/ SetMiscMetaProperties
  \/ SetAuthorInfo
  \/ SetVaccineChoicesOnNodes
  \/ StoreTreeAsV2
  \/ Return

SpecConvert == InitConvert /\ [][NextConvert]_vars

(***************************************************************************)
(* Properties of the converter (checked under SpecConvert).                *)
(***************************************************************************)

\* C1: after convertFromV1 has returned, every node of the output tree has
\* only property names of the fixed allow-list; attr, serum, muts and aa_muts
\* are kept by no node.
C1_OnlyAllowedProperties ==
  pc = "returned" =>
    \A ref \in DOMAIN tree :
      /\ DOMAIN tree[ref] \subseteq
           {"strain", "div", "num_date", "vaccine", "labels", "hidden",
            "mutations", "url", "accession", "traits", "children", "author"}
      /\ (DOMAIN tree[ref]) \cap {"attr", "serum", "muts", "aa_muts"} = {}

\* C1 witness: a returned document whose legacy tree had a node with an attr
\* bag, muts, aa_muts and serum, and a node with no attr bag.
C1_Witness ==
  /\ pc = "returned"
  /\ \E ref \in DOMAIN tree :
       {"attr", "muts", "aa_muts", "serum"} \subseteq DOMAIN legacy.tree[ref]
  /\ \E ref \in DOMAIN tree :
       /\ ~Has(legacy.tree[ref], "attr")
       /\ Has(legacy.tree[ref], "yvalue")
  /\ \E ref \in DOMAIN tree : Has(tree[ref], "children")

\* C2: convertFromV1 never throws, whatever the legacy input.
C2_NeverThrows == pc # "threw"

\* C3: a legacy attr.div that is defined, 0 included, is the migrated node's
\* top-level div, and div is no key of the node's traits.
C3_DivPreserved ==
  pc = "returned" =>
    \A ref \in DOMAIN tree :
      (Has(legacy.tree[ref], "attr") /\ Has(legacy.tree[ref].attr, "div")) =>
        /\ Has(tree[ref], "div")
        /\ tree[ref].div = legacy.tree[ref].attr.div
        /\ ~(Has(tree[ref], "traits") /\ Has(tree[ref].traits, "div"))

\* C3 witness: a returned document with a legacy node whose attr.div is 0 and
\* which has traits, and another legacy node whose attr.div is not 0.
C3_Witness ==
  /\ pc = "returned"
  /\ \E ref \in DOMAIN tree :
       /\ Has(legacy.tree[ref], "attr")
       /\ Has(legacy.tree[ref].attr, "div")
       /\ legacy.tree[ref].attr.div = 0
       /\ Has(tree[ref], "traits")
  /\ \E ref \in DOMAIN tree :
       /\ Has(legacy.tree[ref], "attr")
       /\ Has(legacy.tree[ref].attr, "div")
       /\ legacy.tree[ref].attr.div # 0

v2Key(key) == IF key = "authors" THEN "author" ELSE key

\* C4 (as stated): once setColorings is done, every legacy color option has its coloring
\* under the same key (authors under author), the colorings are as many as
\* the color options, and a coloring is continuous exactly when its legacy
\* option is.
C4_ColoringsOneToOne ==
  (pc \notin {"setColorings", "threw"}) =>
    LET options == legacy.meta.color_options
    IN /\ Cardinality(DOMAIN v2.colorings) = Len(options)
       /\ \A i \in 1..Len(options) :
            /\ Has(v2.colorings, v2Key(options[i].key))
            /\ v2.colorings[v2Key(options[i].key)].type =
                 (IF options[i].value.type = "continuous"
                  THEN "continuous" ELSE "categorical")

\* C4: once setColorings is done, the keys of colorings are the legacy keys
\* with authors renamed to author; author and authors share the one key
\* author, so the colorings are one fewer than the color options when both
\* are there; a coloring is continuous exactly when the last legacy option of
\* its key is.
C4_ColoringsByLastOption ==
  (pc \notin {"setColorings", "threw"}) =>
    LET options == legacy.meta.color_options
        legacyKeys == {options[i].key : i \in 1..Len(options)}
        keys == {v2Key(k) : k \in legacyKeys}
        last(k) == CHOOSE i \in 1..Len(options) :
                     /\ v2Key(options[i].key) = k
                     /\ \A j \in (i + 1)..Len(options) : v2Key(options[j].key) # k
    IN /\ DOMAIN v2.colorings = keys
       /\ Cardinality(DOMAIN v2.colorings) =
            Len(options) - (IF {"author", "authors"} \subseteq legacyKeys
                            THEN 1 ELSE 0)
       /\ \A k \in keys :
            v2.colorings[k].type =
              (IF options[last(k)].value.type = "continuous"
               THEN "continuous" ELSE "categorical")

\* C4 witness: a returned document whose legacy color options had author,
\* continuous, and then authors, not continuous, and a third option.
C4_Witness ==
  /\ pc = "returned"
  /\ LET options == legacy.meta.color_options
     IN /\ Len(options) = 3
        /\ \E i, j \in 1..Len(options) :
             /\ i < j
             /\ options[i].key = "authors"
             /\ options[j].key = "author"
             /\ options[j].value.type = "continuous"
        /\ Cardinality(DOMAIN v2.colorings) = 2

(***************************************************************************)
(*                                                                         *)
(* The map helpers: components/map/mapHelpersLatLong.js                    *)
(*                                                                         *)
(* nodes[i + 1] is the node whose arrayIdx is i; a node with no `children` *)
(* property (a tip) has children = <<>>, and `children` lists arrayIdx     *)
(* values.  visibility and nodeColors are indexed the same way.            *)
(***************************************************************************)
westBound == -360

eastBound == 360

\* util/globals
NODE_NOT_VISIBLE == 0

NODE_VISIBLE == 2

\* what arithmetic on `undefined` gives; every comparison with it is false
NaN == 999999

plus(a, b) == IF a = NaN \/ b = NaN THEN NaN ELSE a + b

minus(a, b) == IF a = NaN \/ b = NaN THEN NaN ELSE a - b

greater(a, b) == a # NaN /\ b # NaN /\ a > b

less(a, b) == a # NaN /\ b # NaN /\ a < b

abs(a) == IF a = NaN THEN NaN ELSE IF a < 0 THEN -a ELSE a

at(array, i) == array[i + 1]

\* a location is truthy when it is neither undefined nor the empty string
isLocation(location) == location # Undefined /\ location # ""

\* util/treeMiscHelpers: the value of the trait on the node, or undefined
getTraitFromNode(node, trait) ==
  IF Has(node.traits, trait) THEN node.traits[trait] ELSE Undefined

\* interchange: the layer point Leaflet gives at the zoom of the map
leafletLatLongToLayerPoint(lat, long, zoom) ==
  [x |-> long * zoom, y |-> (0 - lat) * zoom]

(***************************************************************************)
(* getDemeColors.  demeMap is the sequence of its entries in insertion     *)
(* order, [key, value]; a value is the sequence of its [color, count]      *)
(* entries, in insertion order too.                                        *)
(***************************************************************************)
hasKey(entries, key) == \E i \in 1..Len(entries) : entries[i].key = key

valueOf(entries, key) ==
  entries[CHOOSE i \in 1..Len(entries) : entries[i].key = key].value

keysOf(entries) == [i \in 1..Len(entries) |-> entries[i].key]

isTip(n) == n.children = <<>>

RECURSIVE firstPass(_, _, _, _)
firstPass(nodeArray, geoResolution, i, demeMap) ==
  IF i > Len(nodeArray) THEN demeMap
  ELSE LET n == nodeArray[i]
           location == getTraitFromNode(n, geoResolution)
       IN IF isTip(n) /\ isLocation(location) /\ ~hasKey(demeMap, location)
          THEN firstPass(nodeArray, geoResolution, i + 1,
                         Append(demeMap, [key |-> location, value |-> <<>>]))
          ELSE firstPass(nodeArray, geoResolution, i + 1, demeMap)

\* demeMap[location][color] += 1, or = 1
countColor(value, color) ==
  IF \E j \in 1..Len(value) : value[j].color = color
  THEN [j \in 1..Len(value) |->
          IF value[j].color = color
          THEN [color |-> color, count |-> value[j].count + 1]
          ELSE value[j]]
  ELSE Append(value, [color |-> color, count |-> 1])

RECURSIVE secondPass(_, _, _, _, _, _)
secondPass(nodeArray, vis, geoResolution, colors, i, demeMap) ==
  IF i > Len(nodeArray) THEN demeMap
  ELSE LET n == nodeArray[i]
           location == getTraitFromNode(n, geoResolution)
       IN IF isTip(n) /\ vis[i] # NODE_NOT_VISIBLE /\ isLocation(location)
          THEN secondPass(nodeArray, vis, geoResolution, colors, i + 1,
                 [k \in 1..Len(demeMap) |->
                    IF demeMap[k].key = location
                    THEN [key |-> location,
                          value |-> countColor(demeMap[k].value, colors[i])]
                    ELSE demeMap[k]])
          ELSE secondPass(nodeArray, vis, geoResolution, colors, i + 1, demeMap)

getDemeColors(nodeArray, vis, geoResolution, colors) ==
  secondPass(nodeArray, vis, geoResolution, colors, 1,
             firstPass(nodeArray, geoResolution, 1, <<>>))

RECURSIVE sum(_)
sum(numbers) == IF numbers = <<>> THEN 0 ELSE numbers[1] + sum(Tail(numbers))

\* nDataPoints.length ? nDataPoints.reduce((a,b)=>a+b) : 0
totalOf(value) == sum([j \in 1..Len(value) |-> value[j].count])

\* util/colorHelpers: the average of the colors, weighted by their counts;
\* the model keeps the weights the average is made of
averageColorsDict(value) ==
  [c \in {value[j].color : j \in 1..Len(value)} |->
     value[CHOOSE j \in 1..Len(value) : value[j].color = c].count]

(***************************************************************************)
(* d3-shape pie()(data): one arc per datum, in the order of the data; the  *)
(* angles are handed out by descending value.  An angle is counted in      *)
(* data points: the full circle is the sum of the data.                    *)
(***************************************************************************)
pie(data) ==
  LET before(i, j) == data[j] > data[i] \/ (data[j] = data[i] /\ j < i)
      startOf(i) == sum(SelectSeq([j \in 1..Len(data) |->
                                     IF before(i, j) THEN data[j] ELSE 0],
                                  LAMBDA d : TRUE))
  IN [i \in 1..Len(data) |->
        [value |-> data[i], index |-> i - 1,
         startAngle |-> startOf(i), endAngle |-> startOf(i) + data[i]]]

(***************************************************************************)
(* setupDemeData                                                           *)
(***************************************************************************)
\* setupDemeData: const offsets = triplicate ? [-360, 0, 360] : [0]
demeOffsets(trip) == IF trip THEN <<-360, 0, 360>> ELSE <<0>>

\* demeIndices[key] = [index], or demeIndices[key].push(index)
pushIndex(indices, key, index) ==
  IF Has(indices, key) THEN Set(indices, key, Append(indices[key], index))
  ELSE Set(indices, key, <<index>>)

\* a variant of inBand that forgets the western bound
inBandEastOnly(long) == long < eastBound

\* long > westBound && long < eastBound
inBand(long) == long > westBound /\ long < eastBound

\* the body of the _forOwn callback, for one offset and one entry of demeMap
countDeme(acc, OFFSET, entry, geo, geoResolution, zoom) ==
  LET key == entry.key
      value == entry.value
      nDataPoints == [j \in 1..Len(value) |-> value[j].count]
      arcs == pie(nDataPoints)
      goodDeme == Has(geo[geoResolution], key)
      lat == IF goodDeme THEN geo[geoResolution][key].latitude ELSE 0
      long == IF goodDeme THEN geo[geoResolution][key].longitude + OFFSET ELSE 0
      coords == leafletLatLongToLayerPoint(lat, long, zoom)
      total == totalOf(value)
      sectors == [i \in 1..Len(value) |->
                    [value |-> arcs[i].value, index |-> arcs[i].index,
                     startAngle |-> arcs[i].startAngle,
                     endAngle |-> arcs[i].endAngle,
                     color |-> value[i].color, count |-> total,
                     latitude |-> lat, longitude |-> long, coords |-> coords]]
      deme == [name |-> key, count |-> total, color |-> averageColorsDict(value),
               latitude |-> lat, longitude |-> long, coords |-> coords]
  IN IF inBand(long) /\ goodDeme
     THEN [demeData |-> Append(acc.demeData, deme),
           demeIndices |-> pushIndex(acc.demeIndices, key, Len(acc.demeData)),
           arcData |-> acc.arcData \o sectors]
     ELSE [demeData |-> acc.demeData,
           demeIndices |-> acc.demeIndices,
           arcData |-> acc.arcData \o sectors]

RECURSIVE countDemes(_, _, _, _, _, _, _, _)
countDemes(acc, offsets, o, demeMap, k, geo, geoResolution, zoom) ==
  IF o > Len(offsets) THEN acc
  ELSE IF k > Len(demeMap)
  THEN countDemes(acc, offsets, o + 1, demeMap, 1, geo, geoResolution, zoom)
  ELSE countDemes(countDeme(acc, offsets[o], demeMap[k], geo, geoResolution, zoom),
                  offsets, o, demeMap, k + 1, geo, geoResolution, zoom)

setupDemeData(nodeArray, vis, geoResolution, colors, trip, geo, zoom) ==
  countDemes([demeData |-> <<>>, demeIndices |-> EmptyObject, arcData |-> <<>>],
             demeOffsets(trip),
             1, getDemeColors(nodeArray, vis, geoResolution, colors), 1,
             geo, geoResolution, zoom)

(***************************************************************************)
(* Transmissions                                                           *)
(***************************************************************************)
\* a variant of maybeGetTransmissionPair that lets a difference of 180 pass
maybeGetTransmissionPairUpTo180(latOrig, longOrig, latDest, longDest, zoom) ==
  IF /\ (greater(longOrig, westBound) \/ greater(longDest, westBound))
     /\ (less(longOrig, eastBound) \/ less(longDest, eastBound))
     /\ less(abs(minus(longOrig, longDest)), 181)
  THEN << leafletLatLongToLayerPoint(latOrig, longOrig, zoom),
          leafletLatLongToLayerPoint(latDest, longDest, zoom) >>
  ELSE <<>>

\* a variant of maybeGetTransmissionPair without the tests against the bounds
maybeGetTransmissionPairAnywhere(latOrig, longOrig, latDest, longDest, zoom) ==
  IF less(abs(minus(longOrig, longDest)), 180)
  THEN << leafletLatLongToLayerPoint(latOrig, longOrig, zoom),
          leafletLatLongToLayerPoint(latDest, longDest, zoom) >>
  ELSE <<>>

\* the pair of layer points when the transmission is legal, <<>> for null
maybeGetTransmissionPair(latOrig, longOrig, latDest, longDest, zoom) ==
  IF /\ (greater(longOrig, westBound) \/ greater(longDest, westBound))
     /\ (less(longOrig, eastBound) \/ less(longDest, eastBound))
     /\ less(abs(minus(longOrig, longDest)), 180)
  THEN << leafletLatLongToLayerPoint(latOrig, longOrig, zoom),
          leafletLatLongToLayerPoint(latDest, longDest, zoom) >>
  ELSE <<>>

\* ./transmissionBezier: the points of the curve from the origin to the
\* destination, bent further for a larger extend
bezier(origin, destination, extend) ==
  << origin,
     [x |-> (origin.x + destination.x) \div 2,
      y |-> (origin.y + destination.y) \div 2 + extend],
     destination >>

constructBcurve(originLatLongPair, destinationLatLongPair, extend) ==
  bezier(originLatLongPair, destinationLatLongPair, extend)

\* d3-interpolate: interpolateNumber(a, b)(num / den)
interpolateNumber(a, b, num, den) == a + ((b - a) * num) \div den

\* a variant of transmissionId that names the parent twice
transmissionIdOfParent(node, child) ==
  ToString(node.arrayIdx) \o "-" \o ToString(node.arrayIdx)

\* node.arrayIdx.toString() + "-" + child.arrayIdx.toString()
transmissionId(node, child) ==
  ToString(node.arrayIdx) \o "-" \o ToString(child.arrayIdx)

visibleFlag(vis, child) ==
  IF at(vis, child.arrayIdx) # NODE_NOT_VISIBLE THEN "visible" ELSE "hidden"

\* the locations a lookup in the geographic table fails for
missingLatLongs(node, child, geo, geoResolution) ==
  {location \in {getTraitFromNode(node, geoResolution),
                 getTraitFromNode(child, geoResolution)} :
     ~Has(geo[geoResolution], location)}

\* the transmission as a sequence of one event, or <<>> when there is none
maybeConstructTransmissionEvent(node, child, geo, geoResolution, colors, vis, zoom, offsetOrig, offsetDest, extend) ==
  LET nodeLocation == getTraitFromNode(node, geoResolution)
      childLocation == getTraitFromNode(child, geoResolution)
      origFound == Has(geo[geoResolution], nodeLocation)
      destFound == Has(geo[geoResolution], childLocation)
      latOrig == IF origFound THEN geo[geoResolution][nodeLocation].latitude ELSE NaN
      longOrig == IF origFound THEN geo[geoResolution][nodeLocation].longitude ELSE NaN
      latDest == IF destFound THEN geo[geoResolution][childLocation].latitude ELSE NaN
      longDest == IF destFound THEN geo[geoResolution][childLocation].longitude ELSE NaN
      validLatLongPair ==
        maybeGetTransmissionPair(latOrig, plus(longOrig, offsetOrig),
                                 latDest, plus(longDest, offsetDest), zoom)
  IN IF validLatLongPair # <<>>
     THEN LET Bcurve == constructBcurve(validLatLongPair[1], validLatLongPair[2], extend)
              Bdates == [i \in 1..Len(Bcurve) |->
                           interpolateNumber(node.num_date.value,
                                             child.num_date.value,
                                             i - 1, Len(Bcurve) - 1)]
          IN << [id |-> transmissionId(node, child),
                 originNode |-> node.arrayIdx,
                 destinationNode |-> child.arrayIdx,
                 bezierCurve |-> Bcurve,
                 bezierDates |-> Bdates,
                 originName |-> nodeLocation,
                 destinationName |-> childLocation,
                 originCoords |-> validLatLongPair[1],
                 destinationCoords |-> validLatLongPair[2],
                 originLatitude |-> latOrig,
                 destinationLatitude |-> latDest,
                 originLongitude |-> plus(longOrig, offsetOrig),
                 destinationLongitude |-> plus(longDest, offsetDest),
                 originNumDate |-> node.num_date.value,
                 destinationNumDate |-> child.num_date.value,
                 color |-> at(colors, node.arrayIdx),
                 visible |-> visibleFlag(vis, child),
                 extend |-> extend] >>
     ELSE <<>>

\* the candidates over the three destination offsets, in that order
possibleEventsOf(node, child, geo, geoResolution, colors, vis, zoom, offsetOrig, extend) ==
  maybeConstructTransmissionEvent(node, child, geo, geoResolution, colors, vis,
                                  zoom, offsetOrig, -360, extend)
  \o maybeConstructTransmissionEvent(node, child, geo, geoResolution, colors, vis,
                                     zoom, offsetOrig, 0, extend)
  \o maybeConstructTransmissionEvent(node, child, geo, geoResolution, colors, vis,
                                     zoom, offsetOrig, 360, extend)

horizontalSeparation(event) == abs(event.destinationCoords.x - event.originCoords.x)

\* lodash minBy: the first of the elements with the least value
minBy(events) ==
  events[CHOOSE i \in 1..Len(events) :
           /\ \A j \in 1..Len(events) :
                horizontalSeparation(events[i]) <= horizontalSeparation(events[j])
           /\ \A j \in 1..(i - 1) :
                horizontalSeparation(events[j]) > horizontalSeparation(events[i])]

\* the closest event as a sequence of one event, or <<>> for null
maybeGetClosestTransmissionEvent(node, child, geo, geoResolution, colors, vis, zoom, offsetOrig, extend) ==
  LET possibleEvents == possibleEventsOf(node, child, geo, geoResolution, colors,
                                         vis, zoom, offsetOrig, extend)
  IN IF Len(possibleEvents) > 0 THEN <<minBy(possibleEvents)>> ELSE <<>>

\* a variant of transmissionOffsets that forgets the triplicate flag
transmissionOffsetsAlwaysThree(trip) == <<-360, 0, 360>>

\* setupTransmissionData: const offsets = triplicate ? [-360, 0, 360] : [0]
transmissionOffsets(trip) == IF trip THEN <<-360, 0, 360>> ELSE <<0>>

\* the property name an array of two locations is coerced to
demeToDemeKey(nodeDeme, childDeme) == nodeDeme \o "," \o childDeme

\* the parent -> child pairs in node-array, then children-array order
RECURSIVE edgesFrom(_, _)
edgesFrom(nodeArray, i) ==
  IF i > Len(nodeArray) THEN <<>>
  ELSE [c \in 1..Len(nodeArray[i].children) |->
          [node |-> nodeArray[i], child |-> at(nodeArray, nodeArray[i].children[c])]]
       \o edgesFrom(nodeArray, i + 1)

RECURSIVE eventsOverOffsets(_, _, _, _, _, _, _, _, _, _)
eventsOverOffsets(node, child, geo, geoResolution, colors, vis, zoom, offsets, o, extend) ==
  IF o > Len(offsets) THEN <<>>
  ELSE maybeGetClosestTransmissionEvent(node, child, geo, geoResolution, colors,
                                        vis, zoom, offsets[o], extend)
       \o eventsOverOffsets(node, child, geo, geoResolution, colors, vis, zoom,
                            offsets, o + 1, extend)

\* the body of n.children.forEach for one parent -> child pair
recordTransmission(acc, edge, geo, geoResolution, colors, vis, zoom, offsets) ==
  LET nodeDeme == getTraitFromNode(edge.node, geoResolution)
      childDeme == getTraitFromNode(edge.child, geoResolution)
  IN IF isLocation(nodeDeme) /\ isLocation(childDeme) /\ nodeDeme # childDeme
     THEN LET key == demeToDemeKey(nodeDeme, childDeme)
              extend == IF Has(acc.demeToDemeCounts, key)
                        THEN acc.demeToDemeCounts[key] + 1 ELSE 1
          IN [demeToDemeCounts |-> Set(acc.demeToDemeCounts, key, extend),
              transmissionData |->
                acc.transmissionData
                \o eventsOverOffsets(edge.node, edge.child, geo, geoResolution,
                                     colors, vis, zoom, offsets, 1, extend),
              demesMissingLatLongs |->
                acc.demesMissingLatLongs
                \cup missingLatLongs(edge.node, edge.child, geo, geoResolution)]
     ELSE acc

RECURSIVE recordTransmissions(_, _, _, _, _, _, _, _, _)
recordTransmissions(acc, edges, e, geo, geoResolution, colors, vis, zoom, offsets) ==
  IF e > Len(edges) THEN acc
  ELSE recordTransmissions(
         recordTransmission(acc, edges[e], geo, geoResolution, colors, vis,
                            zoom, offsets),
         edges, e + 1, geo, geoResolution, colors, vis, zoom, offsets)

RECURSIVE indexTransmissions(_, _, _)
indexTransmissions(transmissions, i, indices) ==
  IF i > Len(transmissions) THEN indices
  ELSE indexTransmissions(transmissions, i + 1,
                          pushIndex(indices, transmissions[i].id, i - 1))

\* what setupTransmissionData returns, given what the loop over the nodes left
transmissionResult(r) ==
  [transmissionData |-> r.transmissionData,
   transmissionIndices |-> indexTransmissions(r.transmissionData, 1, EmptyObject),
   demesMissingLatLongs |-> r.demesMissingLatLongs]

setupTransmissionData(nodeArray, vis, geoResolution, colors, trip, geo, zoom) ==
  transmissionResult(
    recordTransmissions(
      [demeToDemeCounts |-> EmptyObject, transmissionData |-> <<>>,
       demesMissingLatLongs |-> {}],
      edgesFrom(nodeArray, 1), 1, geo, geoResolution, colors, vis, zoom,
      transmissionOffsets(trip)))

\* what createDemeAndTransmissionData returns, given the two results
demeAndTransmissionData(d, t) ==
  [demeData |-> d.demeData,
   transmissionData |-> t.transmissionData,
   arcData |-> d.arcData,
   demeIndices |-> d.demeIndices,
   transmissionIndices |-> t.transmissionIndices,
   demesMissingLatLongs |-> t.demesMissingLatLongs]

createDemeAndTransmissionData(nodeArray, vis, geoResolution, colors, trip, geo, zoom) ==
  demeAndTransmissionData(
    setupDemeData(nodeArray, vis, geoResolution, colors, trip, geo, zoom),
    setupTransmissionData(nodeArray, vis, geoResolution, colors, trip, geo, zoom))

(***************************************************************************)
(* UPDATE DEMES & TRANSMISSIONS                                            *)
(* The copies are shallow: the records patched are the caller's records,   *)
(* so what was patched before a TypeError stays patched.                   *)
(***************************************************************************)
\* a variant of patchIndices that patches the first record of the name only
patchIndicesFirstOnly(demes, indices, i, total, color) ==
  IF Len(indices) = 0 THEN demes
  ELSE [demes EXCEPT ![indices[1] + 1].count = total,
                     ![indices[1] + 1].color = color]

RECURSIVE patchIndices(_, _, _, _, _)
patchIndices(demes, indices, i, total, color) ==
  IF i > Len(indices) THEN demes
  ELSE patchIndices([demes EXCEPT ![indices[i] + 1].count = total,
                                  ![indices[i] + 1].color = color],
                    indices, i + 1, total, color)

\* _forOwn over demeMap; demeIndices[name].forEach throws a TypeError when
\* demeIndices has no entry for the name
RECURSIVE patchDemes(_, _, _, _)
patchDemes(demes, indices, demeMap, k) ==
  IF k > Len(demeMap) THEN [demeData |-> demes, threw |-> FALSE]
  ELSE LET name == demeMap[k].key
           value == demeMap[k].value
       IN IF ~Has(indices, name) THEN [demeData |-> demes, threw |-> TRUE]
          ELSE patchDemes(patchIndices(demes, indices[name], 1, totalOf(value),
                                       averageColorsDict(value)),
                          indices, demeMap, k + 1)

updateDemeDataColAndVis(demes, indices, nodeArray, vis, geoResolution, colors) ==
  patchDemes(demes, indices, getDemeColors(nodeArray, vis, geoResolution, colors), 1)

RECURSIVE patchEvents(_, _, _, _, _)
patchEvents(transmissions, indices, i, col, vis) ==
  IF i > Len(indices) THEN transmissions
  ELSE patchEvents([transmissions EXCEPT ![indices[i] + 1].color = col,
                                         ![indices[i] + 1].visible = vis],
                   indices, i + 1, col, vis)

\* the location updateTransmissionDataColAndVis takes for the child:
\* getTraitFromNode(node, geoResolution), the trait of the parent
patchChildLocation(node, child, geoResolution) ==
  getTraitFromNode(node, geoResolution)

\* the body of node.children.forEach for one parent -> child pair; a miss on
\* transmissionIndices[id] is caught
patchTransmission(transmissions, indices, edge, vis, geoResolution, colors) ==
  LET nodeLocation == getTraitFromNode(edge.node, geoResolution)
      childLocation == patchChildLocation(edge.node, edge.child, geoResolution)
      id == transmissionId(edge.node, edge.child)
  IN IF /\ isLocation(nodeLocation) /\ isLocation(childLocation)
        /\ nodeLocation # childLocation
        /\ Has(indices, id)
     THEN patchEvents(transmissions, indices[id], 1,
                      at(colors, edge.node.arrayIdx), visibleFlag(vis, edge.child))
     ELSE transmissions

RECURSIVE patchTransmissions(_, _, _, _, _, _, _)
patchTransmissions(transmissions, indices, edges, e, vis, geoResolution, colors) ==
  IF e > Len(edges) THEN transmissions
  ELSE patchTransmissions(
         patchTransmission(transmissions, indices, edges[e], vis, geoResolution, colors),
         indices, edges, e + 1, vis, geoResolution, colors)

updateTransmissionDataColAndVis(transmissions, indices, nodeArray, vis, geoResolution, colors) ==
  patchTransmissions(transmissions, indices, edgesFrom(nodeArray, 1), 1, vis,
                     geoResolution, colors)

\* newTransmissions is not computed when updateDemeDataColAndVis throws
updateDemeAndTransmissionDataColAndVis(demes, transmissions, dIndices, tIndices, nodeArray, vis, geoResolution, colors) ==
  LET d == updateDemeDataColAndVis(demes, dIndices, nodeArray, vis,
                                   geoResolution, colors)
  IN [newDemes |-> d.demeData,
      newTransmissions |->
        IF d.threw THEN transmissions
        ELSE updateTransmissionDataColAndVis(transmissions, tIndices, nodeArray,
                                             vis, geoResolution, colors),
      threw |-> d.threw]

(***************************************************************************)
(* ZOOM LEVEL CHANGE                                                       *)
(***************************************************************************)
\* a variant of updateDemeDataLatLong that takes the projected x for longitude
updateDemeDataLatLongAndLongitude(demes, zoom) ==
  [i \in 1..Len(demes) |->
     [demes[i] EXCEPT
        !.coords = leafletLatLongToLayerPoint(demes[i].latitude,
                                              demes[i].longitude, zoom),
        !.longitude = demes[i].longitude * zoom]]

updateDemeDataLatLong(demes, zoom) ==
  [i \in 1..Len(demes) |->
     [demes[i] EXCEPT
        !.coords = leafletLatLongToLayerPoint(demes[i].latitude,
                                              demes[i].longitude, zoom)]]

updateTransmissionLatLong(transmission, zoom) ==
  LET originCoords == leafletLatLongToLayerPoint(transmission.originLatitude,
                                                 transmission.originLongitude, zoom)
      destinationCoords ==
        leafletLatLongToLayerPoint(transmission.destinationLatitude,
                                   transmission.destinationLongitude, zoom)
  IN [transmission EXCEPT
        !.originCoords = originCoords,
        !.destinationCoords = destinationCoords,
        !.bezierCurve = constructBcurve(originCoords, destinationCoords,
                                        transmission.extend)]

updateTransmissionDataLatLong(transmissions, zoom) ==
  [i \in 1..Len(transmissions) |-> updateTransmissionLatLong(transmissions[i], zoom)]

updateDemeAndTransmissionDataLatLong(demes, transmissions, zoom) ==
  [newDemes |-> updateDemeDataLatLong(demes, zoom),
   newTransmissions |-> updateTransmissionDataLatLong(transmissions, zoom)]

(***************************************************************************)
(* The trees, masks and colors of the model.                               *)
(***************************************************************************)
GeoResolution == "country"

\* metadata.geographicInfo: location "x" has no entry
geographicInfo ==
  [country |->
     ("a" :> [latitude |-> 10, longitude |-> 5])
     @@ ("a,b" :> [latitude |-> 20, longitude |-> -10])
     @@ ("b,a" :> [latitude |-> 30, longitude |-> 170])]

LocationNames == {"a", "a,b", "b,a", "x"}

\* the children of each node, by arrayIdx: a root with three tips, and a
\* root with an internal node and a tip
MapShapes == { << <<1, 2, 3>>, <<>>, <<>>, <<>> >>,
               << <<1, 3>>, <<2>>, <<>>, <<>> >> }

mapNode(idx, children, location) ==
  [arrayIdx |-> idx,
   children |-> children,
   traits |-> IF location = Undefined THEN EmptyObject
              ELSE Set(EmptyObject, GeoResolution, location),
   num_date |-> [value |-> 2000 + 2 * idx]]

\* the locations each node of the array may have
LocationChoices ==
  << {"a", "a,b", Undefined},
     {"a", "a,b", "x"},
     {"a", "a,b", "b,a", Undefined},
     {"a,b", "b,a", "x"} >>

NodeArrayChoices ==
  { [i \in 1..Len(shape) |-> mapNode(i - 1, shape[i], loc[i])] :
      shape \in MapShapes,
      loc \in {l \in [1..4 -> LocationNames \cup {Undefined}] :
                 \A i \in 1..4 : l[i] \in LocationChoices[i]} }

\* a visibility array and a color array, as one call is given them
ViewChoices ==
  { [visibility |-> <<NODE_VISIBLE, NODE_VISIBLE, NODE_VISIBLE, NODE_NOT_VISIBLE>>,
     nodeColors |-> <<"#0000ff", "#ff0000", "#0000ff", "#ff0000">>],
    [visibility |-> <<NODE_VISIBLE, NODE_NOT_VISIBLE, NODE_NOT_VISIBLE, NODE_VISIBLE>>,
     nodeColors |-> <<"#ff0000", "#ff0000", "#ff0000", "#ff0000">>] }

\* the zoom factors of the map
MaxZoom == 2

(***************************************************************************)
(* The calls the map component makes.  The converter plays no part.        *)
(***************************************************************************)
ConvertIdle ==
  /\ tree = <<>>
  /\ meta = EmptyObject
  /\ treeName = ""
  /\ v2 = EmptyObject
  /\ pc = "idle"
  /\ legacy = EmptyObject

InitMap ==
  /\ ConvertIdle
  /\ nodes \in NodeArrayChoices
  /\ visibility = <<>>
  /\ nodeColors = <<>>
  /\ triplicate = FALSE
  /\ map = 1
  /\ demeData = <<>>
  /\ demeIndices = EmptyObject
  /\ arcData = <<>>
  /\ transmissionData = <<>>
  /\ transmissionIndices = EmptyObject
  /\ demesMissingLatLongs = {}
  /\ lastCall = "none"
  /\ closest = [longOrig |-> 0, longDest |-> 0, offsetOrig |-> 0,
                possibleEvents |-> <<>>, closestEvent |-> <<>>, called |-> FALSE]

\* the caller keeps what createDemeAndTransmissionData returned
KeepBuilt(r) ==
  /\ demeData' = r.demeData
  /\ transmissionData' = r.transmissionData
  /\ arcData' = r.arcData
  /\ demeIndices' = r.demeIndices
  /\ transmissionIndices' = r.transmissionIndices
  /\ demesMissingLatLongs' = r.demesMissingLatLongs

\* createDemeAndTransmissionData
Build(vis, colors, trip) ==
  /\ KeepBuilt(createDemeAndTransmissionData(nodes, vis, GeoResolution, colors,
                                             trip, geographicInfo, map))
  /\ visibility' = vis
  /\ nodeColors' = colors
  /\ triplicate' = trip
  /\ lastCall' = "build"
  /\ UNCHANGED <<nodes, map, closest>>
  /\ UNCHANGED convVars

\* the caller keeps the patched arrays; after a TypeError it has none, but
\* the records it holds were patched in place as far as the patching got
KeepPatched(r) ==
  /\ demeData' = r.newDemes
  /\ transmissionData' = r.newTransmissions
  /\ lastCall' = IF r.threw THEN "repatchThrew" ELSE "repatch"

\* updateDemeAndTransmissionDataColAndVis on what the last build returned
Repatch(vis, colors) ==
  /\ lastCall # "none"
  /\ KeepPatched(updateDemeAndTransmissionDataColAndVis(
                   demeData, transmissionData, demeIndices, transmissionIndices,
                   nodes, vis, GeoResolution, colors))
  /\ visibility' = vis
  /\ nodeColors' = colors
  /\ UNCHANGED <<nodes, triplicate, map, demeIndices, arcData,
                 transmissionIndices, demesMissingLatLongs, closest>>
  /\ UNCHANGED convVars

\* updateDemeAndTransmissionDataLatLong after the map was zoomed
Reproject(zoom) ==
  /\ lastCall # "none"
  /\ LET r == updateDemeAndTransmissionDataLatLong(demeData, transmissionData, zoom)
     IN /\ demeData' = r.newDemes
        /\ transmissionData' = r.newTransmissions
  /\ map' = zoom
  /\ lastCall' = "reproject"
  /\ UNCHANGED <<nodes, visibility, nodeColors, triplicate, demeIndices, arcData,
                 transmissionIndices, demesMissingLatLongs, closest>>
  /\ UNCHANGED convVars

NextMap ==
  \/ \E view \in ViewChoices, trip \in BOOLEAN :
       Build(view.visibility, view.nodeColors, trip)
  \/ \E view \in ViewChoices : Repatch(view.visibility, view.nodeColors)
  \/ \E zoom \in 1..MaxZoom : Reproject(zoom)

SpecMap == InitMap /\ [][NextMap]_vars

(***************************************************************************)
(* One call of maybeGetClosestTransmissionEvent, for a parent at one        *)
(* longitude and a child at another.                                        *)
(***************************************************************************)
\* longs of original map are -180 to 180
MaxLongitude == 180

LongitudeChoices ==
  {l \in (0 - MaxLongitude)..MaxLongitude :
     l % 15 = 0 \/ l \in {-179, -1, 1, 179}}

\* the geographic table of a parent at "origin" and a child at "destination"
pairGeo(longOrig, longDest) ==
  [country |->
     ("origin" :> [latitude |-> 0, longitude |-> longOrig])
     @@ ("destination" :> [latitude |-> 10, longitude |-> longDest])]

pairNode == mapNode(0, <<1>>, "origin")

pairChild == mapNode(1, <<>>, "destination")

pairView == [visibility |-> <<NODE_VISIBLE, NODE_VISIBLE>>,
             nodeColors |-> <<"#0000ff", "#ff0000">>]

InitClosest ==
  /\ ConvertIdle
  /\ nodes = <<>>
  /\ visibility = <<>>
  /\ nodeColors = <<>>
  /\ triplicate = FALSE
  /\ map = 1
  /\ demeData = <<>>
  /\ demeIndices = EmptyObject
  /\ arcData = <<>>
  /\ transmissionData = <<>>
  /\ transmissionIndices = EmptyObject
  /\ demesMissingLatLongs = {}
  /\ lastCall = "none"
  /\ closest \in [longOrig : LongitudeChoices, longDest : LongitudeChoices,
                  offsetOrig : {-360, 0, 360}, possibleEvents : {<<>>},
                  closestEvent : {<<>>}, called : {FALSE}]

\* what the call leaves: the candidates it collected and what it returned
KeepClosest(possibleEvents, closestEvent) ==
  closest' = [closest EXCEPT !.possibleEvents = possibleEvents,
                             !.closestEvent = closestEvent,
                             !.called = TRUE]

\* maybeGetClosestTransmissionEvent(node, child, ..., offsetOrig, ..., extend)
ClosestEvent ==
  /\ ~closest.called
  /\ KeepClosest(
       possibleEventsOf(pairNode, pairChild,
                        pairGeo(closest.longOrig, closest.longDest),
                        GeoResolution, pairView.nodeColors, pairView.visibility,
                        map, closest.offsetOrig, 1),
       maybeGetClosestTransmissionEvent(pairNode, pairChild,
                        pairGeo(closest.longOrig, closest.longDest),
                        GeoResolution, pairView.nodeColors, pairView.visibility,
                        map, closest.offsetOrig, 1))
  /\ UNCHANGED <<nodes, visibility, nodeColors, triplicate, map, demeData,
                 demeIndices, arcData, transmissionData, transmissionIndices,
                 demesMissingLatLongs, lastCall>>
  /\ UNCHANGED convVars

NextClosest == ClosestEvent

SpecClosest == InitClosest /\ [][NextClosest]_vars

(***************************************************************************)
(* Properties of the map helpers (checked under SpecMap).                  *)
(***************************************************************************)

\* C5: what createDemeAndTransmissionData returns has one Deme for an
\* (offset, location) pair exactly when some tip is at the location, the
\* location is in the geographic table and its longitude plus the offset is
\* strictly between -360 and 360, the offsets being 0 alone without
\* triplication and -360, 0, 360 with it; the count of a Deme is the number of
\* the tips at its location that are not NODE_NOT_VISIBLE; and without
\* triplication two visible tips of different colors, alone at a location of
\* the table, give one Deme of count 2 and two arc sectors.
C5_DemePerOffsetAndLocation ==
  lastCall = "build" =>
    LET geo == geographicInfo[GeoResolution]
        offsets == IF triplicate THEN {-360, 0, 360} ELSE {0}
        tipsAt(L) == {i \in 1..Len(nodes) :
                        /\ nodes[i].children = <<>>
                        /\ Has(nodes[i].traits, GeoResolution)
                        /\ nodes[i].traits[GeoResolution] = L}
        visibleTipsAt(L) == {i \in tipsAt(L) : visibility[i] # NODE_NOT_VISIBLE}
        emitted(L, off) ==
          /\ off \in offsets
          /\ tipsAt(L) # {}
          /\ L \in DOMAIN geo
          /\ geo[L].longitude + off > -360
          /\ geo[L].longitude + off < 360
        demesOf(L, off) ==
          {d \in 1..Len(demeData) :
             /\ demeData[d].name = L
             /\ L \in DOMAIN geo
             /\ demeData[d].longitude = geo[L].longitude + off}
    IN /\ \A L \in LocationNames, off \in {-360, 0, 360} :
            Cardinality(demesOf(L, off)) = (IF emitted(L, off) THEN 1 ELSE 0)
       /\ \A d \in 1..Len(demeData) :
            /\ demeData[d].name \in DOMAIN geo
            /\ (demeData[d].longitude - geo[demeData[d].name].longitude) \in offsets
            /\ demeData[d].count = Cardinality(visibleTipsAt(demeData[d].name))
       /\ ~triplicate =>
            \A L \in DOMAIN geo :
              (/\ Cardinality(visibleTipsAt(L)) = 2
               /\ \E i, j \in visibleTipsAt(L) : nodeColors[i] # nodeColors[j]) =>
                /\ Cardinality({d \in 1..Len(demeData) : demeData[d].name = L}) = 1
                /\ \A d \in 1..Len(demeData) :
                     demeData[d].name = L => demeData[d].count = 2
                /\ Cardinality({a \in 1..Len(arcData) :
                                  /\ arcData[a].latitude = geo[L].latitude
                                  /\ arcData[a].longitude = geo[L].longitude}) = 2

\* C5 witness: a triplicated build with a Deme of count 0, a Deme of count 2
\* of two colors, and a location that has its Deme on two of the three copies
\* of the map only.
C5_Witness ==
  /\ lastCall = "build"
  /\ triplicate
  /\ \E d \in 1..Len(demeData) : demeData[d].count = 0
  /\ \E d \in 1..Len(demeData) :
       /\ demeData[d].count = 2
       /\ Cardinality(DOMAIN demeData[d].color) = 2
  /\ \E L \in DOMAIN demeIndices : Len(demeIndices[L]) = 2

\* C6: the extend of every event of the k-th edge, in node-array then
\* children-array order, among the edges with the same ordered pair of
\* truthy, different (parent location, child location) is k: a counter per
\* ordered pair of location names, shared by no two different pairs.
C6_ExtendPerOrderedPair ==
  lastCall = "build" =>
    LET edges == edgesFrom(nodes, 1)
        locationOf(n) == IF Has(n.traits, GeoResolution)
                         THEN n.traits[GeoResolution] ELSE Undefined
        counted(e) ==
          /\ isLocation(locationOf(e.node))
          /\ isLocation(locationOf(e.child))
          /\ locationOf(e.node) # locationOf(e.child)
        rank(k) ==
          Cardinality({j \in 1..k :
                         /\ counted(edges[j])
                         /\ locationOf(edges[j].node) = locationOf(edges[k].node)
                         /\ locationOf(edges[j].child) = locationOf(edges[k].child)})
    IN \A k \in 1..Len(edges), i \in 1..Len(transmissionData) :
         (/\ transmissionData[i].originNode = edges[k].node.arrayIdx
          /\ transmissionData[i].destinationNode = edges[k].child.arrayIdx) =>
           transmissionData[i].extend = rank(k)

\* C7 (as stated): the events of one edge id are 0 or 1 without triplication
\* and 0 or 3 with it, never 2.
C7_EventsPerIdOneOrThree ==
  lastCall = "build" =>
    LET edges == edgesFrom(nodes, 1)
        eventsOf(k) ==
          {i \in 1..Len(transmissionData) :
             transmissionData[i].id = transmissionId(edges[k].node, edges[k].child)}
    IN \A k \in 1..Len(edges) :
         Cardinality(eventsOf(k)) \in (IF triplicate THEN {0, 3} ELSE {0, 1})

\* C7: the events of one edge id are at most one per origin offset applied:
\* each has the longitude of its origin location shifted by one of the
\* offsets, no two of them by the same offset; so they are 0 or 1 without
\* triplication and 0, 1, 2 or 3 with it.
C7_AtMostOneEventPerOriginOffset ==
  lastCall = "build" =>
    LET geo == geographicInfo[GeoResolution]
        offsets == IF triplicate THEN {-360, 0, 360} ELSE {0}
        edges == edgesFrom(nodes, 1)
        eventsOf(k) ==
          {i \in 1..Len(transmissionData) :
             transmissionData[i].id = transmissionId(edges[k].node, edges[k].child)}
    IN /\ \A k \in 1..Len(edges) :
            /\ Cardinality(eventsOf(k)) <= Cardinality(offsets)
            /\ \A i, j \in eventsOf(k) :
                 i # j => transmissionData[i].originLongitude #
                            transmissionData[j].originLongitude
       /\ \A i \in 1..Len(transmissionData) :
            /\ transmissionData[i].originName \in DOMAIN geo
            /\ (transmissionData[i].originLongitude
                  - geo[transmissionData[i].originName].longitude) \in offsets
            /\ \E k \in 1..Len(edges) : i \in eventsOf(k)

\* C7 witness: a triplicated build with an edge id of exactly two events and
\* an edge id of exactly three.
C7_Witness ==
  /\ lastCall = "build"
  /\ triplicate
  /\ \E id \in DOMAIN transmissionIndices : Len(transmissionIndices[id]) = 2
  /\ \E id \in DOMAIN transmissionIndices : Len(transmissionIndices[id]) = 3

\* C8: after updateDemeAndTransmissionDataColAndVis every event has the color
\* its origin node has in the new colors, and is visible exactly when its
\* destination node is not NODE_NOT_VISIBLE in the new visibility.
C8_EventsRepatched ==
  lastCall = "repatch" =>
    \A i \in 1..Len(transmissionData) :
      /\ transmissionData[i].color =
           nodeColors[transmissionData[i].originNode + 1]
      /\ transmissionData[i].visible =
           (IF visibility[transmissionData[i].destinationNode + 1] # NODE_NOT_VISIBLE
            THEN "visible" ELSE "hidden")

\* C9: updateDemeAndTransmissionDataColAndVis on what
\* createDemeAndTransmissionData returned never throws, a tip at a location
\* with no entry in the geographic table included.
C9_RepatchNeverThrows == lastCall # "repatchThrew"

\* C10: when every tip location is in the geographic table, after
\* updateDemeAndTransmissionDataColAndVis every Deme record, on every copy of
\* its location, has for count the number of the tips at its location that
\* are not NODE_NOT_VISIBLE in the new visibility, 0 when all are hidden.
C10_DemeCountsRepatched ==
  (/\ lastCall = "repatch"
   /\ \A i \in 1..Len(nodes) :
        (nodes[i].children = <<>> /\ Has(nodes[i].traits, GeoResolution)) =>
          nodes[i].traits[GeoResolution] \in DOMAIN geographicInfo[GeoResolution]) =>
    \A d \in 1..Len(demeData) :
      demeData[d].count =
        Cardinality({i \in 1..Len(nodes) :
                       /\ nodes[i].children = <<>>
                       /\ Has(nodes[i].traits, GeoResolution)
                       /\ nodes[i].traits[GeoResolution] = demeData[d].name
                       /\ visibility[i] # NODE_NOT_VISIBLE})

\* C10 witness: a triplicated map after a patch that changed counts: every tip
\* location is in the table, a location has two Deme records of count 0 while
\* the arc sectors of the build still count 2 tips there, and another Deme has
\* a count that is not 0.
C10_Witness ==
  /\ lastCall = "repatch"
  /\ triplicate
  /\ \A i \in 1..Len(nodes) :
       (nodes[i].children = <<>> /\ Has(nodes[i].traits, GeoResolution)) =>
         nodes[i].traits[GeoResolution] \in DOMAIN geographicInfo[GeoResolution]
  /\ \E L \in DOMAIN demeIndices :
       /\ Len(demeIndices[L]) = 2
       /\ \A k \in 1..2 : demeData[demeIndices[L][k] + 1].count = 0
       /\ \E a \in 1..Len(arcData) :
            /\ arcData[a].count = 2
            /\ arcData[a].latitude = demeData[demeIndices[L][1] + 1].latitude
  /\ \E d \in 1..Len(demeData) : demeData[d].count > 0

\* C11: every event has the id "<parent arrayIdx>-<child arrayIdx>" of a
\* parent -> child edge of the tree; two events have the same id exactly when
\* they have the same parent and the same child; and transmissionIndices has
\* the ids of the events for keys, transmissionIndices[id] listing, once each,
\* exactly the positions of the events of that id.
C11_IdsAndIndices ==
  lastCall # "none" =>
    LET idOf(i) == ToString(transmissionData[i].originNode) \o "-"
                   \o ToString(transmissionData[i].destinationNode)
        positions == 1..Len(transmissionData)
        positionsOf(id) == {i - 1 : i \in {j \in positions : transmissionData[j].id = id}}
    IN /\ \A i \in positions :
            /\ transmissionData[i].id = idOf(i)
            /\ \E c \in 1..Len(nodes[transmissionData[i].originNode + 1].children) :
                 nodes[transmissionData[i].originNode + 1].children[c] =
                   transmissionData[i].destinationNode
       /\ \A i, j \in positions :
            (transmissionData[i].id = transmissionData[j].id) <=>
              (/\ transmissionData[i].originNode = transmissionData[j].originNode
               /\ transmissionData[i].destinationNode = transmissionData[j].destinationNode)
       /\ DOMAIN transmissionIndices = {transmissionData[i].id : i \in positions}
       /\ \A id \in DOMAIN transmissionIndices :
            /\ {transmissionIndices[id][k] : k \in 1..Len(transmissionIndices[id])}
                 = positionsOf(id)
            /\ Len(transmissionIndices[id]) = Cardinality(positionsOf(id))

\* C11 witness: a triplicated build with three events of one edge, two of
\* another, and two edges of one parent among them.
C11_Witness ==
  /\ lastCall = "build"
  /\ triplicate
  /\ \E id1, id2 \in DOMAIN transmissionIndices :
       /\ Len(transmissionIndices[id1]) = 3
       /\ Len(transmissionIndices[id2]) = 2
       /\ transmissionData[transmissionIndices[id1][1] + 1].originNode =
            transmissionData[transmissionIndices[id2][1] + 1].originNode

\* C12 (as stated): every event of a build has its origin longitude and its
\* destination longitude both strictly between -360 and 360 and less than 180
\* apart, and an edge with an endpoint whose location is not in the
\* geographic table has no event.
C12_BothEndpointsInBand ==
  lastCall = "build" =>
    LET geo == geographicInfo[GeoResolution]
        locationOf(n) == IF Has(n.traits, GeoResolution)
                         THEN n.traits[GeoResolution] ELSE Undefined
        edges == edgesFrom(nodes, 1)
    IN /\ \A i \in 1..Len(transmissionData) :
            LET orig == transmissionData[i].originLongitude
                dest == transmissionData[i].destinationLongitude
            IN /\ orig > -360 /\ orig < 360
               /\ dest > -360 /\ dest < 360
               /\ orig - dest < 180 /\ dest - orig < 180
       /\ \A k \in 1..Len(edges) :
            (\/ locationOf(edges[k].node) \notin DOMAIN geo
             \/ locationOf(edges[k].child) \notin DOMAIN geo) =>
              ~\E i \in 1..Len(transmissionData) :
                 /\ transmissionData[i].originNode = edges[k].node.arrayIdx
                 /\ transmissionData[i].destinationNode = edges[k].child.arrayIdx

\* C12: every event of a build has its origin longitude or its destination
\* longitude east of -360, its origin longitude or its destination longitude
\* west of 360, and the two less than 180 apart: one endpoint may be out of
\* the band.  An edge with an endpoint whose location is not in the
\* geographic table has no event.
C12_OneEndpointInBand ==
  lastCall = "build" =>
    LET geo == geographicInfo[GeoResolution]
        locationOf(n) == IF Has(n.traits, GeoResolution)
                         THEN n.traits[GeoResolution] ELSE Undefined
        edges == edgesFrom(nodes, 1)
    IN /\ \A i \in 1..Len(transmissionData) :
            LET orig == transmissionData[i].originLongitude
                dest == transmissionData[i].destinationLongitude
            IN /\ (orig > -360 \/ dest > -360)
               /\ (orig < 360 \/ dest < 360)
               /\ orig - dest < 180 /\ dest - orig < 180
       /\ \A k \in 1..Len(edges) :
            (\/ locationOf(edges[k].node) \notin DOMAIN geo
             \/ locationOf(edges[k].child) \notin DOMAIN geo) =>
              ~\E i \in 1..Len(transmissionData) :
                 /\ transmissionData[i].originNode = edges[k].node.arrayIdx
                 /\ transmissionData[i].destinationNode = edges[k].child.arrayIdx

\* C12 witness: a triplicated build with an event whose origin longitude is
\* east of the band, its destination inside, and an edge to a tip at a
\* location that is not in the geographic table.
C12_Witness ==
  /\ lastCall = "build"
  /\ triplicate
  /\ \E i \in 1..Len(transmissionData) :
       /\ transmissionData[i].originLongitude >= 360
       /\ transmissionData[i].destinationLongitude < 360
  /\ \E n \in 1..Len(nodes) :
       /\ nodes[n].children = <<>>
       /\ Has(nodes[n].traits, GeoResolution)
       /\ nodes[n].traits[GeoResolution] \notin DOMAIN geographicInfo[GeoResolution]
       /\ nodes[n].traits[GeoResolution] \in demesMissingLatLongs

C14_AtMostOneCandidate ==
  closest.called =>
    /\ Cardinality({offsetDest \in {-360, 0, 360} :
                      maybeGetTransmissionPair(
                        0, closest.longOrig + closest.offsetOrig,
                        10, closest.longDest + offsetDest, map) # <<>>}) <= 1
    /\ Cardinality({offsetDest \in {-360, 0, 360} :
                      LET delta == (closest.longOrig + closest.offsetOrig)
                                     - (closest.longDest + offsetDest)
                      IN delta < 180 /\ 0 - delta < 180}) <= 1
    /\ Len(closest.possibleEvents) <= 1
    /\ closest.closestEvent = closest.possibleEvents

\* C14 witness: a call with no origin offset whose only candidate is a shifted
\* copy of the destination.
C14_Witness ==
  /\ closest.called
  /\ closest.offsetOrig = 0
  /\ Len(closest.possibleEvents) = 1
  /\ closest.possibleEvents[1].destinationLongitude = closest.longDest + 360
  /\ closest.closestEvent = closest.possibleEvents
====
